---------------------------- MODULE Spec2Model ----------------------------
(***************************************************************************)
(* Model of src/app.py: resolution of photo URLs to capture timestamps,    *)
(* the process-wide resolution cache, interval computation and labelling,  *)
(* photo-column detection and the row-by-row pipeline.                     *)
(*                                                                         *)
(* Strings are sequences of one-character strings, so that strip, lstrip,  *)
(* lower, substring search and the regular-expression search are computed  *)
(* character by character.  The module is ASCII only; the Cyrillic         *)
(* literals of the source are transliterated:                              *)
(*     " min" = " мин"   " ch" = " ч"   "oshibka" = "ошибка"               *)
(*     "foto do" = "фото до"   "foto posle" = "фото после"                 *)
(* Python's None is <<>> for an optional datetime and for an optional      *)
(* minute count (a present count n is <<n>>).                              *)
(***************************************************************************)
EXTENDS Integers, Sequences, FiniteSets, TLC

VARIABLES
    cache,                 \* _url_datetime_cache: normalized url -> datetime or None
    fetchCount,            \* history: url -> number of requests.get calls made on it
    lastCall,              \* history: the last get_datetime_from_url call
    pc,                    \* position in process_dataframe: "idle", "before", "after"
    df,                    \* the dataset of the current (or last) run
    cols,                  \* <<before_col, after_col>> of the current run
    row,                   \* index of the row being processed
    dt_before,             \* the before-timestamp of the row being processed
    before_dates,          \* process_dataframe's four result lists
    after_dates,
    interval_minutes_raw,
    interval_strs,
    result,                \* what the last finished process_dataframe call produced
    prev_result,           \* history: result of the preceding run on the same dataset
    arg,                   \* input of the function exercised on its own
    res                    \* its output

vars == <<cache, fetchCount, lastCall, pc, df, cols, row, dt_before, before_dates, after_dates,
          interval_minutes_raw, interval_strs, result, prev_result, arg, res>>

pipelineVars == <<pc, df, cols, row, dt_before, before_dates, after_dates,
                  interval_minutes_raw, interval_strs, result, prev_result>>

resolverVars == <<cache, fetchCount, lastCall>>

-----------------------------------------------------------------------------
(* Bounds *)

MaxRows == 2          \* rows of a dataset given to the pipeline
MaxLen == 4           \* length of a raw cell string given to the resolver
MaxCols == 3          \* columns of a dataset given to the column detector
MaxMinutes == 130     \* largest minute count given to format_interval
MaxPieces == 2        \* pieces a string given to the extractor is made of

-----------------------------------------------------------------------------
(* Values *)

None == <<>>
Some(x) == <<x>>

Str(s) == <<"str", s>>          \* a cell or argument that is a Python str
NaN == <<"nan">>                \* a cell or argument that is not a str (empty cell)
IsStr(v) == v[1] = "str"

Digits == <<"0", "1", "2", "3", "4", "5", "6", "7", "8", "9">>
Whitespace == {" ", "\t", "\n"}

IsDigit(c) == \E k \in 1..10 : Digits[k] = c
DigitVal(c) == (CHOOSE k \in 1..10 : Digits[k] = c) - 1

RECURSIVE IntOf(_)
IntOf(cs) ==
    IF cs = <<>> THEN 0
    ELSE 10 * IntOf(SubSeq(cs, 1, Len(cs) - 1)) + DigitVal(cs[Len(cs)])

RECURSIVE LStrip(_, _)
LStrip(s, chars) ==
    IF s # <<>> /\ s[1] \in chars THEN LStrip(Tail(s), chars) ELSE s

RECURSIVE RStrip(_, _)
RStrip(s, chars) ==
    IF s # <<>> /\ s[Len(s)] \in chars
    THEN RStrip(SubSeq(s, 1, Len(s) - 1), chars) ELSE s

Strip(s) == RStrip(LStrip(s, Whitespace), Whitespace)

Contains(s, sub) ==
    \E p \in 1..(Len(s) - Len(sub) + 1) : SubSeq(s, p, p + Len(sub) - 1) = sub

-----------------------------------------------------------------------------
(* extract_datetime_from_string *)

Marker == <<"s", "a", "v", "e", "d", "-">>

MatchAt(s, p) ==
    /\ p + 20 <= Len(s)
    /\ SubSeq(s, p, p + 5) = Marker
    /\ \A j \in (p + 6)..(p + 13) : IsDigit(s[j])
    /\ s[p + 14] = "_"
    /\ \A j \in (p + 15)..(p + 20) : IsDigit(s[j])

HasMatch(s) == \E p \in 1..Len(s) : MatchAt(s, p)

\* Variant: the last match is taken (re.findall(...)[-1])
LastMatch(s) == CHOOSE p \in 1..Len(s) : MatchAt(s, p) /\ \A q \in (p + 1)..Len(s) : ~MatchAt(s, q)

FirstMatch(s) == CHOOSE p \in 1..Len(s) : MatchAt(s, p) /\ \A q \in 1..(p - 1) : ~MatchAt(s, q)

IsLeap(year) == year % 4 = 0 /\ (year % 100 # 0 \/ year % 400 = 0)

DaysInMonth(year, month) ==
    IF month = 2 THEN (IF IsLeap(year) THEN 29 ELSE 28)
    ELSE IF month \in {4, 6, 9, 11} THEN 30 ELSE 31

ValidDatetime(year, month, day, hour, minute, second) ==
    /\ year \in 1..9999
    /\ month \in 1..12
    /\ day >= 1
    /\ day <= DaysInMonth(year, month)
    /\ hour \in 0..23
    /\ minute \in 0..59
    /\ second \in 0..59

Datetime(year, month, day, hour, minute, second) ==
    IF ValidDatetime(year, month, day, hour, minute, second)
    THEN <<year, month, day, hour, minute, second>>
    ELSE None                                   \* ValueError, caught

extract_datetime_from_string(s) ==
    IF ~IsStr(s) THEN None
    ELSE IF ~HasMatch(s[2]) THEN None
    ELSE LET p == FirstMatch(s[2])
             date_part == SubSeq(s[2], p + 6, p + 13)
             time_part == SubSeq(s[2], p + 15, p + 20)
         IN  Datetime(IntOf(SubSeq(date_part, 1, 4)),
                      IntOf(SubSeq(date_part, 5, 6)),
                      IntOf(SubSeq(date_part, 7, 8)),
                      IntOf(SubSeq(time_part, 1, 2)),
                      IntOf(SubSeq(time_part, 3, 4)),
                      IntOf(SubSeq(time_part, 5, 6)))

-----------------------------------------------------------------------------
(* get_datetime_from_url *)

Raise == <<"exc">>                 \* requests.get raised (timeout, DNS, bad URL, ...)
Resp(final_url) == <<"resp", final_url>>   \* a response whose resp.url is final_url

EmptyCache == [k \in {} |-> None]

IsBlank(raw_url) == ~IsStr(raw_url) \/ Strip(raw_url[2]) = <<>>

\* Variant: only one leading "@" is removed (removeprefix("@"))
NormalizeUrlOne(raw_url) ==
    LET t == Strip(raw_url[2])
    IN  IF t # <<>> /\ t[1] = "@" THEN Tail(t) ELSE t

NormalizeUrl(raw_url) == LStrip(Strip(raw_url[2]), {"@"})

\* Variant: a lookup that takes a stored None for a miss (if cache.get(url):)
CacheHitTruthy(url, c) == url \in DOMAIN c /\ c[url] # None

CacheHit(url, c) == url \in DOMAIN c

TryFetch(outcome) ==
    IF outcome = Raise THEN None
    ELSE extract_datetime_from_string(Str(outcome[2]))

CacheStore(c, url, dt_obj) ==
    [k \in DOMAIN c \cup {url} |-> IF k = url THEN dt_obj ELSE c[k]]

\* The call's return value, the cache after it, and the urls it requested.
get_datetime_from_url(raw_url, c, outcome) ==
    IF IsBlank(raw_url)
    THEN [ret |-> None, cache |-> c, fetched |-> <<>>]
    ELSE LET url == NormalizeUrl(raw_url)
         IN  IF CacheHit(url, c)
             THEN [ret |-> c[url], cache |-> c, fetched |-> <<>>]
             ELSE LET dt_obj == TryFetch(outcome)
                  IN  [ret |-> dt_obj,
                       cache |-> CacheStore(c, url, dt_obj),
                       fetched |-> <<url>>]

\* History of the calls: how often each url was requested, and the last call.
Count(fc, url) == IF url \in DOMAIN fc THEN fc[url] ELSE 0

CountFetches(fc, fetched) ==
    IF fetched = <<>> THEN fc
    ELSE [k \in DOMAIN fc \cup {fetched[1]} |-> Count(fc, k) + (IF k = fetched[1] THEN 1 ELSE 0)]

NoCall == [raw |-> NaN, blank |-> TRUE, key |-> <<>>, known |-> FALSE,
           stored |-> None, ret |-> None, fetched |-> <<>>]

CallRecord(raw_url, c, r) ==
    IF IsBlank(raw_url)
    THEN [raw |-> raw_url, blank |-> TRUE, key |-> <<>>, known |-> FALSE,
          stored |-> None, ret |-> r.ret, fetched |-> r.fetched]
    ELSE LET url == LStrip(Strip(raw_url[2]), {"@"})
         IN  [raw |-> raw_url, blank |-> FALSE, key |-> url, known |-> url \in DOMAIN c,
              stored |-> IF url \in DOMAIN c THEN c[url] ELSE None,
              ret |-> r.ret, fetched |-> r.fetched]

-----------------------------------------------------------------------------
(* format_interval and the interval of a row *)

\* Variant: the hour form from 61 minutes on (minutes <= 60)
format_interval_le(minutes) ==
    IF minutes = None THEN ""
    ELSE LET m == minutes[1]
             hours == m \div 60
             mins == m % 60
         IN  IF m < 0 THEN "oshibka"
             ELSE IF m <= 60 THEN ToString(m) \o " min"
             ELSE IF mins = 0 THEN ToString(hours) \o " ch"
             ELSE ToString(hours) \o " ch " \o ToString(mins) \o " min"

format_interval(minutes) ==
    IF minutes = None THEN ""
    ELSE LET m == minutes[1]
             hours == m \div 60
             mins == m % 60
         IN  IF m < 0 THEN "oshibka"
             ELSE IF m < 60 THEN ToString(m) \o " min"
             ELSE IF mins = 0 THEN ToString(hours) \o " ch"
             ELSE ToString(hours) \o " ch " \o ToString(mins) \o " min"

RECURSIVE DaysBeforeMonth(_, _)
DaysBeforeMonth(year, month) ==
    IF month = 1 THEN 0
    ELSE DaysBeforeMonth(year, month - 1) + DaysInMonth(year, month - 1)

DaysBeforeYear(year) ==
    LET y == year - 1 IN y * 365 + (y \div 4) - (y \div 100) + (y \div 400)

ToOrdinal(d) == DaysBeforeYear(d[1]) + DaysBeforeMonth(d[1], d[2]) + d[3]

\* (dt_after - dt_before).total_seconds()
TotalSeconds(dta, dtb) ==
    (ToOrdinal(dta) - ToOrdinal(dtb)) * 86400
    + (dta[4] - dtb[4]) * 3600
    + (dta[5] - dtb[5]) * 60
    + (dta[6] - dtb[6])

\* Variant: rounding toward zero (int(total_seconds / 60))
WholeMinutesTrunc(seconds) ==
    IF seconds < 0 THEN -((-seconds) \div 60) ELSE seconds \div 60

\* int(total_seconds // 60): Python's // and TLA+'s \div both round down
WholeMinutes(seconds) == seconds \div 60

\* <<interval_minutes_raw entry, interval_strs entry>> of one row
RowInterval(dtb, dta) ==
    IF dtb = None \/ dta = None THEN <<None, "">>
    ELSE LET minutes == WholeMinutes(TotalSeconds(dta, dtb))
         IN  IF minutes < 0 THEN <<None, "oshibka">>
             ELSE <<Some(minutes), format_interval(Some(minutes))>>

-----------------------------------------------------------------------------
(* detect_photo_columns *)

\* A dataset is [columns |-> a sequence of [name, dtype, values]]; every column
\* holds one value per row, and the column names are distinct (read_excel
\* renames duplicates).

UpperLetters == <<"A", "B", "C", "D", "E", "F", "G", "H", "I", "J", "K", "L", "M",
                  "N", "O", "P", "Q", "R", "S", "T", "U", "V", "W", "X", "Y", "Z">>
LowerLetters == <<"a", "b", "c", "d", "e", "f", "g", "h", "i", "j", "k", "l", "m",
                  "n", "o", "p", "q", "r", "s", "t", "u", "v", "w", "x", "y", "z">>

LowerChar(c) ==
    IF \E k \in 1..26 : UpperLetters[k] = c
    THEN LowerLetters[CHOOSE k \in 1..26 : UpperLetters[k] = c]
    ELSE c

Lower(s) == [k \in 1..Len(s) |-> LowerChar(s[k])]

FotoDo == <<"f", "o", "t", "o", " ", "d", "o">>
FotoPosle == <<"f", "o", "t", "o", " ", "p", "o", "s", "l", "e">>
SavedDash == <<"s", "a", "v", "e", "d", "-">>

NRows(d) == IF d.columns = <<>> THEN 0 ELSE Len(d.columns[1].values)

ColumnIndex(d, name) == CHOOSE k \in 1..Len(d.columns) : d.columns[k].name = name

\* Variant: the headers are compared as they are, without strip() and lower()
ColsLowerGetExact(d, key) ==
    LET hits == {k \in 1..Len(d.columns) : d.columns[k].name = key}
    IN  IF hits = {} THEN None
        ELSE Some(d.columns[CHOOSE k \in hits : \A j \in hits : j <= k].name)

\* cols_lower.get(key): the dict keeps the last column for a repeated key
ColsLowerGet(d, key) ==
    LET hits == {k \in 1..Len(d.columns) : Lower(Strip(d.columns[k].name)) = key}
    IN  IF hits = {} THEN None
        ELSE Some(d.columns[CHOOSE k \in hits : \A j \in hits : j <= k].name)

AsTypeStr(v) == IF IsStr(v) THEN v[2] ELSE <<"n", "a", "n">>

\* Variant: only the first value of the column is looked at
ContainsSavedFirst(series) ==
    series.values # <<>> /\ Contains(AsTypeStr(series.values[1]), SavedDash)

ContainsSaved(series) ==
    \E k \in 1..Len(series.values) : Contains(AsTypeStr(series.values[k]), SavedDash)

RECURSIVE ScanCandidates(_, _, _)
ScanCandidates(d, k, candidate_cols) ==
    IF k > Len(d.columns) THEN candidate_cols
    ELSE LET series == d.columns[k]
             next == IF series.dtype = "object" /\ ContainsSaved(series)
                     THEN Append(candidate_cols, series.name)
                     ELSE candidate_cols
         IN  IF series.dtype # "object" THEN ScanCandidates(d, k + 1, candidate_cols)
             ELSE IF Len(next) >= 2 THEN next
             ELSE ScanCandidates(d, k + 1, next)

HeaderPass(before_col, after_col) == before_col # None /\ after_col # None

detect_photo_columns(d) ==
    LET before_col == ColsLowerGet(d, FotoDo)
        after_col == ColsLowerGet(d, FotoPosle)
        candidate_cols == ScanCandidates(d, 1, <<>>)
    IN  IF HeaderPass(before_col, after_col) THEN <<before_col, after_col>>
        ELSE IF Len(candidate_cols) < 2 THEN <<None, None>>
        ELSE <<Some(candidate_cols[1]), Some(candidate_cols[2])>>

-----------------------------------------------------------------------------
(* process_dataframe *)

PreviewRows == 15

DataVremyaDo == <<"D", "_", "d", "o">>               \* column of before_dates
DataVremyaPosle == <<"D", "_", "p", "o", "s", "l", "e">>   \* column of after_dates
IntervalMin == <<"I", "_", "m", "i", "n">>           \* column of interval_strs
IntervalMinutesRaw == <<"i", "_", "r", "a", "w">>    \* column of interval_minutes_raw

\* row.get(col) of row i
CellOf(d, col, i) == d.columns[ColumnIndex(d, col[1])].values[i]

\* df[name] = values: replaces the column of that name, or appends one
SetColumn(d, name, dtype, values) ==
    LET new == [name |-> name, dtype |-> dtype, values |-> values]
    IN  IF \E k \in 1..Len(d.columns) : d.columns[k].name = name
        THEN [columns |-> [k \in 1..Len(d.columns) |->
                              IF d.columns[k].name = name THEN new ELSE d.columns[k]]]
        ELSE [columns |-> Append(d.columns, new)]

RECURSIVE Pad(_, _)
Pad(n, width) ==
    IF width = 0 THEN <<>>
    ELSE Append(Pad(n \div 10, width - 1), Digits[(n % 10) + 1])

\* A list of datetimes and Nones assigned as a column: pandas makes it a
\* datetime64 column, in which None is NaT, unless all of it is None.
NaT == <<"NaT">>

HasDatetime(values) == \E k \in 1..Len(values) : values[k] # None

ToDatetimeColumn(values) ==
    IF HasDatetime(values)
    THEN [k \in 1..Len(values) |-> IF values[k] = None THEN NaT ELSE values[k]]
    ELSE values

DateDtype(values) == IF HasDatetime(values) THEN "datetime64" ELSE "object"

\* isinstance(x, dt.datetime): NaT is an instance of a subclass of datetime
IsDatetimeInstance(x) == x # None

\* NaT.strftime raises ValueError ("NaTType does not support strftime")
StrftimeRaises(x) == IsDatetimeInstance(x) /\ x = NaT

\* x.strftime("%Y-%m-%d %H:%M:%S") if isinstance(x, dt.datetime) else ""
Strftime(x) ==
    IF ~IsDatetimeInstance(x) THEN <<>>
    ELSE Pad(x[1], 4) \o <<"-">> \o Pad(x[2], 2) \o <<"-">> \o Pad(x[3], 2) \o <<" ">>
         \o Pad(x[4], 2) \o <<":">> \o Pad(x[5], 2) \o <<":">> \o Pad(x[6], 2)

HeadRows(seq, n) == SubSeq(seq, 1, IF Len(seq) < n THEN Len(seq) ELSE n)

\* (interval_minutes_raw becomes a float column when a None is in it; the
\* counts keep their values)
Augmented(d, bd, ad, strs, raw) ==
    SetColumn(SetColumn(SetColumn(SetColumn(d, DataVremyaDo, DateDtype(bd), ToDatetimeColumn(bd)),
                                  DataVremyaPosle, DateDtype(ad), ToDatetimeColumn(ad)),
                        IntervalMin, "object", strs),
              IntervalMinutesRaw, "object", raw)

\* Whether formatting the preview's dates raises.
PreviewRaises(out) ==
    \E k \in 1..(IF NRows(out) < PreviewRows THEN NRows(out) ELSE PreviewRows) :
        \/ StrftimeRaises(CellOf(out, <<DataVremyaDo>>, k))
        \/ StrftimeRaises(CellOf(out, <<DataVremyaPosle>>, k))

Preview(out, c) ==
    LET n == IF NRows(out) < PreviewRows THEN NRows(out) ELSE PreviewRows
    IN  [k \in 1..n |->
            <<CellOf(out, c[1], k), CellOf(out, c[2], k),
              Strftime(CellOf(out, <<DataVremyaDo>>, k)),
              Strftime(CellOf(out, <<DataVremyaPosle>>, k)),
              CellOf(out, <<IntervalMin>>, k)>>]

RaisedValueError == [status |-> "raised", error |-> "photo columns not found"]
RaisedInPreview == [status |-> "raised", error |-> "NaTType does not support strftime"]

\* What process_dataframe ends with after the loop: the value it returns, or
\* the ValueError of the preview.
Returned(d, c, bd, ad, strs, raw) ==
    LET out == Augmented(d, bd, ad, strs, raw)
    IN  IF PreviewRaises(out) THEN RaisedInPreview
        ELSE [status |-> "ok", df |-> out, before_col |-> c[1], after_col |-> c[2],
              preview |-> Preview(out, c),
              interval_list |-> HeadRows([k \in 1..NRows(out) |->
                                            CellOf(out, <<IntervalMinutesRaw>>, k)],
                                        PreviewRows)]
NoRun == [status |-> "none"]

-----------------------------------------------------------------------------
(* The environment: datasets that are uploaded and what a fetch can yield *)

UrlA == <<"a">>
UrlB == <<"b">>

SavedUrl(year, month, day, hour, minute, second) ==
    <<"/">> \o Marker \o Pad(year, 4) \o Pad(month, 2) \o Pad(day, 2) \o <<"_">>
    \o Pad(hour, 2) \o Pad(minute, 2) \o Pad(second, 2) \o <<".", "j">>

FinalUrls ==
    { SavedUrl(2024, 2, 29, 23, 59, 45),
      SavedUrl(2024, 3, 1, 0, 0, 15),        \* 30 seconds later
      SavedUrl(2024, 3, 1, 1, 25, 10),       \* 85 minutes 25 seconds later
      SavedUrl(2023, 2, 29, 12, 0, 0),       \* not a calendar date
      <<"/", "x">> }                         \* no marker

FetchOutcomes == {Raise} \cup {Resp(u) : u \in FinalUrls}

BeforeCells == {Str(UrlA), Str(UrlB), NaN}
AfterCells == {Str(<<" ", "@">> \o UrlA), Str(UrlB)}

InferDtype(values) ==
    IF \E k \in 1..Len(values) : IsStr(values[k]) THEN "object" ELSE "float64"

Column(name, values) == [name |-> name, dtype |-> InferDtype(values), values |-> values]

RowSeqs == UNION {[1..n -> BeforeCells \X AfterCells] : n \in 0..MaxRows}

PhotoDf(name1, name2, rows) ==
    [columns |-> << Column(name1, [k \in 1..Len(rows) |-> rows[k][1]]),
                    Column(name2, [k \in 1..Len(rows) |-> rows[k][2]]) >>]

HeaderDo == <<"F", "o", "t", "o", " ", "D", "O">>
HeaderPosle == <<" ", "F", "o", "t", "o", " ", "P", "O", "S", "L", "E">>
HeaderOther == <<"U", "r", "l">>

EmptyDf == [columns |-> <<>>]

Datasets ==
    {PhotoDf(HeaderDo, HeaderPosle, rows) : rows \in RowSeqs}
    \cup {PhotoDf(HeaderDo, HeaderOther, rows) : rows \in RowSeqs}

-----------------------------------------------------------------------------
(* The pipeline as a state machine *)

Boot ==
    /\ cache = EmptyCache
    /\ fetchCount = EmptyCache
    /\ lastCall = NoCall
    /\ pc = "idle"
    /\ df = EmptyDf
    /\ cols = <<None, None>>
    /\ row = 0
    /\ dt_before = None
    /\ before_dates = <<>>
    /\ after_dates = <<>>
    /\ interval_minutes_raw = <<>>
    /\ interval_strs = <<>>
    /\ result = NoRun
    /\ prev_result = NoRun

Init ==
    /\ Boot
    /\ arg = NaN
    /\ res = None

\* Variant: a failed detection returns the dataset as it is instead of raising
EntryNoRaise(d, c) ==
    IF c[1] = None \/ c[2] = None
    THEN [result |-> [status |-> "ok", df |-> d, before_col |-> c[1], after_col |-> c[2],
                      preview |-> <<>>, interval_list |-> <<>>],
          pc |-> "idle", row |-> 0]
    ELSE IF NRows(d) = 0
    THEN [result |-> Returned(d, c, <<>>, <<>>, <<>>, <<>>), pc |-> "idle", row |-> 0]
    ELSE [result |-> NoRun, pc |-> "before", row |-> 1]

\* The check after detect_photo_columns: the ValueError, or for a dataset
\* without rows the return at once, or the loop over the rows.
Entry(d, c) ==
    IF c[1] = None \/ c[2] = None
    THEN [result |-> RaisedValueError, pc |-> "idle", row |-> 0]
    ELSE IF NRows(d) = 0
    THEN [result |-> Returned(d, c, <<>>, <<>>, <<>>, <<>>), pc |-> "idle", row |-> 0]
    ELSE [result |-> NoRun, pc |-> "before", row |-> 1]

\* process_dataframe(d) up to its first row
Enter(d) ==
    /\ pc = "idle"
    /\ df' = d
    /\ prev_result' = IF d = df THEN result ELSE NoRun
    /\ cols' = detect_photo_columns(d)
    /\ dt_before' = None
    /\ before_dates' = <<>>
    /\ after_dates' = <<>>
    /\ interval_minutes_raw' = <<>>
    /\ interval_strs' = <<>>
    /\ result' = Entry(d, cols').result
    /\ pc' = Entry(d, cols').pc
    /\ row' = Entry(d, cols').row

\* Variant: every run starts with a cache of its own
StartRunFresh(d) ==
    /\ Enter(d)
    /\ cache' = EmptyCache
    /\ UNCHANGED <<fetchCount, lastCall, arg, res>>

\* index() reads an uploaded file and calls process_dataframe; the module-level
\* cache is what the earlier requests left.
StartRun(d) ==
    /\ Enter(d)
    /\ UNCHANGED <<resolverVars, arg, res>>

\* dt_before = get_datetime_from_url(before_val)
ResolveBefore ==
    /\ pc = "before"
    /\ \E outcome \in FetchOutcomes :
          LET before_val == CellOf(df, cols[1], row)
              r == get_datetime_from_url(before_val, cache, outcome)
          IN  /\ cache' = r.cache
              /\ fetchCount' = CountFetches(fetchCount, r.fetched)
              /\ lastCall' = CallRecord(before_val, cache, r)
              /\ dt_before' = r.ret
    /\ pc' = "after"
    /\ UNCHANGED <<df, cols, row, before_dates, after_dates, interval_minutes_raw,
                   interval_strs, result, prev_result, arg, res>>

\* dt_after = get_datetime_from_url(after_val), the appends, and after the last
\* row the rest of process_dataframe
ResolveAfter ==
    /\ pc = "after"
    /\ \E outcome \in FetchOutcomes :
          LET after_val == CellOf(df, cols[2], row)
              r == get_datetime_from_url(after_val, cache, outcome)
              interval == RowInterval(dt_before, r.ret)
              bd == Append(before_dates, dt_before)
              ad == Append(after_dates, r.ret)
              raw == Append(interval_minutes_raw, interval[1])
              strs == Append(interval_strs, interval[2])
          IN  /\ cache' = r.cache
              /\ fetchCount' = CountFetches(fetchCount, r.fetched)
              /\ lastCall' = CallRecord(after_val, cache, r)
              /\ before_dates' = bd
              /\ after_dates' = ad
              /\ interval_minutes_raw' = raw
              /\ interval_strs' = strs
              /\ IF row < NRows(df)
                 THEN /\ row' = row + 1
                      /\ pc' = "before"
                      /\ result' = result
                 ELSE /\ row' = row
                      /\ pc' = "idle"
                      /\ result' = Returned(df, cols, bd, ad, strs, raw)
    /\ dt_before' = None
    /\ UNCHANGED <<df, cols, prev_result, arg, res>>

\* The request is over: its dataset and result are dropped.  Only the
\* module-level cache outlives it.
EndRequest ==
    /\ pc = "idle"
    /\ df # EmptyDf
    /\ df' = EmptyDf
    /\ cols' = <<None, None>>
    /\ row' = 0
    /\ before_dates' = <<>>
    /\ after_dates' = <<>>
    /\ interval_minutes_raw' = <<>>
    /\ interval_strs' = <<>>
    /\ result' = NoRun
    /\ prev_result' = NoRun
    /\ lastCall' = NoCall
    /\ UNCHANGED <<pc, cache, fetchCount, dt_before, arg, res>>

\* A file is uploaded ...
Upload ==
    /\ df = EmptyDf
    /\ \E d \in Datasets : StartRun(d)

\* ... or the file of the request before is uploaded once more.
UploadAgain ==
    /\ df # EmptyDf
    /\ StartRun(df)

Next ==
    \/ Upload
    \/ UploadAgain
    \/ ResolveBefore
    \/ ResolveAfter
    \/ EndRequest

Spec == Init /\ [][Next]_vars

-----------------------------------------------------------------------------
(* get_datetime_from_url on its own, over all short raw values *)

RawAlphabet == {" ", "\t", "@", "a"}

RawInputs == {NaN} \cup {Str(s) : s \in UNION {[1..n -> RawAlphabet] : n \in 0..MaxLen}}

InitResolve ==
    /\ Boot
    /\ arg \in RawInputs
    /\ res = None

ResolveArg ==
    /\ \E outcome \in FetchOutcomes :
          LET r == get_datetime_from_url(arg, cache, outcome)
          IN  /\ cache' = r.cache
              /\ fetchCount' = CountFetches(fetchCount, r.fetched)
              /\ lastCall' = CallRecord(arg, cache, r)
              /\ res' = Some(r.ret)
    /\ UNCHANGED <<pipelineVars, arg>>

SpecResolve == InitResolve /\ [][ResolveArg]_vars

-----------------------------------------------------------------------------
(* format_interval on its own *)

MinuteInputs == {None} \cup {Some(n) : n \in (-3)..MaxMinutes}

InitFormat ==
    /\ Boot
    /\ arg \in MinuteInputs
    /\ res = None

Format ==
    /\ res = None
    /\ res' = Some(format_interval(arg))
    /\ UNCHANGED <<resolverVars, pipelineVars, arg>>

SpecFormat == InitFormat /\ [][Format]_vars

-----------------------------------------------------------------------------
(* detect_photo_columns on its own *)

HeaderDo2 == <<" ", "f", "o", "t", "o", " ", "d", "o", " ">>
HeaderId == <<"i", "d">>
HeaderNote == <<"N", "o", "t", "e">>

DetectNames == {HeaderDo, HeaderDo2, HeaderPosle, HeaderOther, HeaderId, HeaderNote}

DetectValues ==
    { <<Str(UrlA), Str(<<"/">> \o SavedDash \o <<"1">>)>>,    \* the marker, in the second row
      <<Str(UrlA), NaN>>,                                      \* text without the marker
      <<NaN, NaN>> }                                           \* no text

DetectColumns == {Column(name, values) : name \in DetectNames, values \in DetectValues}

DetectDatasets ==
    { [columns |-> cs] :
        cs \in { c \in UNION {[1..n -> DetectColumns] : n \in 0..MaxCols} :
                   \A j, k \in 1..Len(c) : j # k => c[j].name # c[k].name } }

InitDetect ==
    /\ Boot
    /\ arg \in DetectDatasets
    /\ res = None

Detect ==
    /\ res = None
    /\ res' = Some(detect_photo_columns(arg))
    /\ UNCHANGED <<resolverVars, pipelineVars, arg>>

SpecDetect == InitDetect /\ [][Detect]_vars

-----------------------------------------------------------------------------
(* extract_datetime_from_string on its own *)

\* A string is the concatenation of pieces: well-formed stamps, and text that
\* neither is nor completes one.
StampDates == { <<2024, 2, 29>>, <<2023, 2, 29>>, <<2024, 13, 1>>, <<2024, 12, 32>>,
                <<0, 1, 1>>, <<9999, 12, 31>> }
StampTimes == { <<0, 0, 0>>, <<23, 59, 59>>, <<24, 0, 0>>, <<12, 60, 0>>, <<12, 30, 60>> }

Stamp(d, t) == [kind |-> "stamp", date |-> d, time |-> t]
Junk(text) == [kind |-> "junk", text |-> text]

JunkTexts ==
    { <<"x">>,
      <<"1">>,
      Marker,                                                          \* the marker alone
      Marker \o Pad(2024, 4) \o Pad(229, 4) \o <<"-">> \o Pad(0, 6),   \* "-" for "_"
      Marker \o Pad(2024, 4) \o Pad(22, 3) \o <<"_">> \o Pad(0, 6) }   \* seven digits

Pieces == {Stamp(d, t) : d \in StampDates, t \in StampTimes} \cup {Junk(x) : x \in JunkTexts}

PieceText(piece) ==
    IF piece.kind = "junk" THEN piece.text
    ELSE Marker \o Pad(piece.date[1], 4) \o Pad(piece.date[2], 2) \o Pad(piece.date[3], 2)
         \o <<"_">> \o Pad(piece.time[1], 2) \o Pad(piece.time[2], 2) \o Pad(piece.time[3], 2)

RECURSIVE Flatten(_)
Flatten(pieces) ==
    IF pieces = <<>> THEN <<>> ELSE PieceText(pieces[1]) \o Flatten(Tail(pieces))

ExtractInputs == {NaN} \cup {Str(ps) : ps \in UNION {[1..n -> Pieces] : n \in 0..MaxPieces}}

InitExtract ==
    /\ Boot
    /\ arg \in ExtractInputs
    /\ res = None

Extract ==
    /\ res = None
    /\ res' = Some(extract_datetime_from_string(
                       IF IsStr(arg) THEN Str(Flatten(arg[2])) ELSE arg))
    /\ UNCHANGED <<resolverVars, pipelineVars, arg>>

SpecExtract == InitExtract /\ [][Extract]_vars

-----------------------------------------------------------------------------
(* Properties *)

\* C1: every normalized url is requested at most once; a call on a known key
\* returns the stored value without a request, a stored None included; a call
\* on an unknown key requests it once and stores what it returns; a stored
\* value never changes.
C1_Calls ==
    /\ \A k \in DOMAIN fetchCount : fetchCount[k] <= 1
    /\ DOMAIN fetchCount = DOMAIN cache
    /\ ~lastCall.blank /\ lastCall.known =>
          /\ lastCall.fetched = <<>>
          /\ lastCall.ret = lastCall.stored
          /\ cache[lastCall.key] = lastCall.stored
    /\ ~lastCall.blank /\ ~lastCall.known =>
          /\ lastCall.fetched = <<lastCall.key>>
          /\ cache[lastCall.key] = lastCall.ret

C1_Stable == \A k \in DOMAIN cache : k \in DOMAIN cache' /\ cache'[k] = cache[k]

C1_AtMostOneFetchPerKey == [][C1_Stable /\ C1_Calls']_vars

\* C1 witness: a second raw value of the same key is answered from a stored None.
C1_Witness ==
    /\ ~lastCall.blank
    /\ lastCall.known
    /\ lastCall.raw = Str(<<" ", "@">> \o UrlA)
    /\ lastCall.stored = None
    /\ lastCall.ret = None
    /\ fetchCount[UrlA] = 1

-----------------------------------------------------------------------------
\* The trimmed value: what is left of s between its first and its last
\* character that is not whitespace.
IsTrimOf(t, s) ==
    \E i \in 0..Len(s) : \E j \in i..Len(s) :
        /\ t = SubSeq(s, i + 1, j)
        /\ \A k \in 1..i : s[k] \in Whitespace
        /\ \A k \in (j + 1)..Len(s) : s[k] \in Whitespace
        /\ t # <<>> => t[1] \notin Whitespace /\ t[Len(t)] \notin Whitespace

\* The key of the one call made so far, as the cache and the request show it.
UsedKey(k) == DOMAIN cache = {k} /\ DOMAIN fetchCount = {k}

FirstCallDone == res # None /\ IsStr(arg) /\ ~(\A k \in 1..Len(arg[2]) : arg[2][k] \in Whitespace)

\* C2 as stated: the key is the trimmed value less at most one leading "@".
C2_AtMostOneAtRemoved ==
    FirstCallDone =>
        \E t \in {SubSeq(arg[2], i, j) : i \in 1..(Len(arg[2]) + 1), j \in 0..Len(arg[2])} :
            /\ IsTrimOf(t, arg[2])
            /\ UsedKey(IF t[1] = "@" THEN Tail(t) ELSE t)

\* C2 amended: the key is the trimmed value less all its leading "@".
C2_AllLeadingAtRemoved ==
    FirstCallDone =>
        \E t \in {SubSeq(arg[2], i, j) : i \in 1..(Len(arg[2]) + 1), j \in 0..Len(arg[2])} :
            /\ IsTrimOf(t, arg[2])
            /\ \E n \in 0..Len(t) :
                  /\ \A k \in 1..n : t[k] = "@"
                  /\ n < Len(t) => t[n + 1] # "@"
                  /\ UsedKey(SubSeq(t, n + 1, Len(t)))

\* C2 witness: two leading "@" between whitespace, both removed.
C2_Witness ==
    /\ res # None
    /\ arg = Str(<<" ", "@", "@", "a">>)
    /\ UsedKey(<<"a">>)

-----------------------------------------------------------------------------
\* Whether timestamp a is earlier than timestamp b, field by field.
Earlier(a, b) ==
    \E k \in 1..6 : a[k] < b[k] /\ \A j \in 1..(k - 1) : a[j] = b[j]

\* C3: of every processed row, the raw minutes are present only if both
\* timestamps are and after is not earlier than before; then they are the
\* seconds between them divided by 60 and rounded down, and not negative.  A
\* missing timestamp gives (None, ""), an earlier after gives (None, "oshibka").
C3_RowInterval ==
    \A k \in 1..Len(interval_minutes_raw) :
        LET b == before_dates[k]
            a == after_dates[k]
            m == interval_minutes_raw[k]
            label == interval_strs[k]
        IN  IF b = None \/ a = None THEN m = None /\ label = ""
            ELSE IF Earlier(a, b) THEN m = None /\ label = "oshibka"
            ELSE /\ m # None
                 /\ m[1] >= 0
                 /\ 60 * m[1] <= TotalSeconds(a, b)
                 /\ TotalSeconds(a, b) < 60 * m[1] + 60

\* C3 witness: after is 30 seconds earlier than before.
C3_Witness ==
    \E k \in 1..Len(interval_minutes_raw) :
        /\ before_dates[k] # None
        /\ after_dates[k] # None
        /\ TotalSeconds(after_dates[k], before_dates[k]) = -30
        /\ interval_strs[k] = "oshibka"

-----------------------------------------------------------------------------
\* C4: the label of n >= 0 minutes is "<n> min" below 60, "<h> ch" for whole
\* hours and "<h> ch <m> min" otherwise, with h = n div 60, m = n mod 60.
C4_Label ==
    res # None /\ arg # None /\ arg[1] >= 0 =>
        LET n == arg[1]
            h == CHOOSE x \in 0..n : 60 * x <= n /\ n < 60 * x + 60
            m == n - 60 * h
        IN  /\ n < 60 => res[1] = ToString(n) \o " min"
            /\ n >= 60 /\ m = 0 => res[1] = ToString(h) \o " ch"
            /\ n >= 60 /\ m # 0 => m \in 1..59 /\ res[1] = ToString(h) \o " ch " \o ToString(m) \o " min"
            /\ n = 45 => res[1] = "45 min"
            /\ n = 85 => res[1] = "1 ch 25 min"
            /\ n = 0 => res[1] = "0 min"
            /\ n = 60 => res[1] = "1 ch"

\* C4 witness: 85 minutes.
C4_Witness == arg = Some(85) /\ res = Some("1 ch 25 min")

-----------------------------------------------------------------------------
DetectionFails(d) ==
    LET c == detect_photo_columns(d) IN c[1] = None \/ c[2] = None

\* C5: a call of process_dataframe on a dataset whose columns are not detected
\* ends at once with the ValueError: no row is processed, nothing is requested,
\* the cache is as it was, and no dataset or preview is returned.
C5_DetectionFailureAborts ==
    [][ pc = "idle" /\ df' # EmptyDf /\ DetectionFails(df') =>
            /\ result' = RaisedValueError
            /\ pc' = "idle"
            /\ cache' = cache
            /\ fetchCount' = fetchCount
            /\ before_dates' = <<>>
            /\ after_dates' = <<>>
            /\ interval_minutes_raw' = <<>>
            /\ interval_strs' = <<>> ]_vars

\* C5 witness: a dataset with rows was refused while the cache held entries.
C5_Witness ==
    /\ pc = "idle"
    /\ result = RaisedValueError
    /\ NRows(df) >= 1
    /\ DOMAIN cache # {}

-----------------------------------------------------------------------------
ValuesOf(d, name) ==
    d.columns[CHOOSE k \in 1..Len(d.columns) : d.columns[k].name = name].values

\* What the resolver has for a cell once the run is over.
Resolved(v) == IF IsBlank(v) THEN None ELSE cache[NormalizeUrl(v)]

\* C6 as stated: when the columns are detected the run ends without an error,
\* whatever the requests yield; the returned dataset has the rows of the input,
\* in its order, and the four derived fields of a row are those of the
\* resolutions of that row's own two cells.  (It does not hold: a date column
\* with a timestamp and a None has NaT, on which the preview's strftime raises.)
C6_RowsOnTheirOwn ==
    /\ result.status = "raised" => DetectionFails(df)
    /\ pc = "idle" /\ df # EmptyDf /\ ~DetectionFails(df) =>
          /\ result.status = "ok"
          /\ \A k \in 1..Len(df.columns) : result.df.columns[k] = df.columns[k]
          /\ \A k \in 1..Len(result.df.columns) :
                Len(result.df.columns[k].values) = NRows(df)
          /\ \A i \in 1..NRows(df) : \A c \in {1, 2} :
                LET v == ValuesOf(df, cols[c][1])[i]
                IN  IsBlank(v) \/ NormalizeUrl(v) \in DOMAIN cache
          /\ \A i \in 1..NRows(df) :
                LET b == Resolved(ValuesOf(df, cols[1][1])[i])
                    a == Resolved(ValuesOf(df, cols[2][1])[i])
                IN  /\ ValuesOf(result.df, DataVremyaDo)[i] = b
                    /\ ValuesOf(result.df, DataVremyaPosle)[i] = a
                    /\ <<ValuesOf(result.df, IntervalMinutesRaw)[i],
                         ValuesOf(result.df, IntervalMin)[i]>> = RowInterval(b, a)

-----------------------------------------------------------------------------
\* The headers of the datasets that are "foto do", "foto posle" once trimmed
\* and lower-cased.
DoNames == {HeaderDo, HeaderDo2}
PosleNames == {HeaderPosle}

Named(d, names) == {k \in 1..Len(d.columns) : d.columns[k].name \in names}
BothHeaders(d) == Named(d, DoNames) # {} /\ Named(d, PosleNames) # {}
LastOf(S) == CHOOSE k \in S : \A j \in S : j <= k
FirstOf(S) == CHOOSE k \in S : \A j \in S : k <= j

\* The columns with text that has the marker.
MarkerValues == <<Str(UrlA), Str(<<"/", "s", "a", "v", "e", "d", "-", "1">>)>>
Qualifying(d) == {k \in 1..Len(d.columns) : d.columns[k].values = MarkerValues}

\* C7: with both headers present the result is the column headed "foto do" and
\* the column headed "foto posle" (of several, the last), wherever they stand
\* and whichever columns hold the marker.
C7_HeadersTakePrecedence ==
    res # None /\ BothHeaders(arg) =>
        res[1] = << Some(arg.columns[LastOf(Named(arg, DoNames))].name),
                    Some(arg.columns[LastOf(Named(arg, PosleNames))].name) >>

\* C7 witness: the content would give (Url, Foto POSLE), the headers give
\* (Foto DO, Foto POSLE).
C7_Witness ==
    /\ res # None
    /\ Len(arg.columns) = 3
    /\ arg.columns[1].name = HeaderOther
    /\ arg.columns[2].name = HeaderPosle
    /\ arg.columns[3].name = HeaderDo
    /\ Qualifying(arg) = {1, 2}
    /\ res[1] = <<Some(HeaderDo), Some(HeaderPosle)>>

\* C8: without both headers the result is the first two columns, from the
\* left, that hold text with the marker, and (None, None) if there are fewer
\* than two.
C8_FallbackFirstTwo ==
    res # None /\ ~BothHeaders(arg) =>
        LET Q == Qualifying(arg)
        IN  IF Cardinality(Q) < 2 THEN res[1] = <<None, None>>
            ELSE res[1] = << Some(arg.columns[FirstOf(Q)].name),
                             Some(arg.columns[FirstOf(Q \ {FirstOf(Q)})].name) >>

\* C8 witness: three columns qualify, the third under the header "Foto DO".
C8_Witness ==
    /\ res # None
    /\ Qualifying(arg) = {1, 2, 3}
    /\ arg.columns[3].name = HeaderDo
    /\ res[1] = <<Some(arg.columns[1].name), Some(arg.columns[2].name)>>

-----------------------------------------------------------------------------
\* The dates and times of the stamps that exist in the calendar.
CalendarDates == { <<2024, 2, 29>>, <<9999, 12, 31>> }
ClockTimes == { <<0, 0, 0>>, <<23, 59, 59>> }

\* C9: the first stamp of the string decides: its timestamp if its digits are
\* a date and a time, None if they are not, whatever follows; None as well
\* for a string without a stamp and for a value that is no string.
C9_FirstStampDecides ==
    res # None =>
        IF ~IsStr(arg) THEN res[1] = None
        ELSE LET S == {k \in 1..Len(arg[2]) : arg[2][k].kind = "stamp"}
             IN  IF S = {} THEN res[1] = None
                 ELSE LET first == arg[2][FirstOf(S)]
                      IN  IF first.date \in CalendarDates /\ first.time \in ClockTimes
                          THEN res[1] = first.date \o first.time
                          ELSE res[1] = None

\* C9 witness: month 13 in the first stamp, a valid second stamp, no result.
C9_Witness ==
    /\ res = Some(None)
    /\ IsStr(arg)
    /\ arg[2] = << Stamp(<<2024, 13, 1>>, <<23, 59, 59>>), Stamp(<<2024, 2, 29>>, <<23, 59, 59>>) >>

-----------------------------------------------------------------------------
\* C10 as stated: a run starts with a cache without entries.
C10_RunStartsWithEmptyCache ==
    pc = "before" /\ row = 1 => cache = EmptyCache

\* C10 amended: the cache is the module's and outlives the runs.  Neither the
\* start of a run nor the end of a request changes it; a run on the dataset of
\* the run before requests nothing, and ends as that run ended: with the same
\* returned value, or with the same error.
C10_CacheOutlivesRun ==
    [][ /\ pc = "idle" => cache' = cache /\ fetchCount' = fetchCount
        /\ prev_result.status = "ok" => fetchCount' = fetchCount
        /\ pc' = "idle" /\ prev_result'.status # "none" /\ result'.status # "none" =>
              result' = prev_result' ]_vars

\* C10 witness: a second run on a dataset with rows, answered from the cache.
C10_Witness ==
    /\ pc = "idle"
    /\ NRows(df) >= 1
    /\ prev_result.status = "ok"
    /\ result = prev_result
    /\ DOMAIN cache # {}

=============================================================================
